---- MODULE Spec2Model ----
(***************************************************************************)
(* Model of handler/bids.sh, the finalize-and-convert pipeline driver.     *)
(*                                                                         *)
(* A string is a sequence of atoms; an atom is one character, or a run of  *)
(* characters that are special neither to the shell nor to the kernel      *)
(* ("ds", "finalized.json").  The special atoms are " " (IFS), "/" and     *)
(* ".".  A path is a sequence of components, a component a non-empty       *)
(* string without "/".  The filesystem maps every existing path to its     *)
(* node; a file's data is a sequence of entries.                           *)
(***************************************************************************)
EXTENDS Integers, Sequences, FiniteSets, TLC

VARIABLES arg, pc, exitStatus, root, datasetName, rootDir, fs, trace,
          run, fs0, convWrote, outcome, valOut, hist, variant, manifest, fan

vars == <<arg, pc, exitStatus, root, datasetName, rootDir, fs, trace,
          run, fs0, convWrote, outcome, valOut, hist, variant, manifest, fan>>

----------------------------------------------------------------------------
(* Bounds of the model.                                                    *)

MaxNameLen == 3

MaxRuns == 2

MaxManifest == 13

Alphabet == {"ds", "s", ".", "/", " "}

----------------------------------------------------------------------------
(* Strings, shell word splitting, paths.                                   *)

StringsUpTo(n) == UNION {[1..k -> Alphabet] : k \in 0..n}

RECURSIVE SplitOn(_, _)
SplitOn(s, sep) ==
    IF s = <<>> THEN << <<>> >>
    ELSE LET rest == SplitOn(Tail(s), sep)
         IN  IF Head(s) = sep
             THEN << <<>> >> \o rest
             ELSE << <<Head(s)>> \o Head(rest) >> \o Tail(rest)

NonEmpty(segs) == SelectSeq(segs, LAMBDA x : x # <<>>)

\* An unquoted expansion is split on IFS whitespace into zero or more words.
Words(s) == NonEmpty(SplitOn(s, " "))

Comps(w) == NonEmpty(SplitOn(w, "/"))

IsAbs(w) == w # <<>> /\ Head(w) = "/"

Dot == <<".">>

DotDot == <<".", ".">>

Last(q) == q[Len(q)]

Front(q) == SubSeq(q, 1, Len(q) - 1)

IsPrefix(p, q) == Len(p) <= Len(q) /\ SubSeq(q, 1, Len(p)) = p

----------------------------------------------------------------------------
(* The filesystem.                                                         *)

RootPath == <<>>

Cwd == << <<"w">> >>

NoPath == << <<>> >>

DirNode == [kind |-> "dir", data |-> <<>>]

FileNode(d) == [kind |-> "file", data |-> d]

Entry(text, tag, sub) == [text |-> text, tag |-> tag, sub |-> sub]

Exists(f, p) == p \in DOMAIN f

IsDir(f, p) == Exists(f, p) /\ f[p].kind = "dir"

IsFile(f, p) == Exists(f, p) /\ f[p].kind = "file"

Parent(p) == IF p = <<>> THEN <<>> ELSE Front(p)

\* Kernel path walk: every component is looked up in an existing directory.
RECURSIVE Walk(_, _, _)
Walk(f, cur, comps) ==
    IF comps = <<>> THEN cur
    ELSE IF ~IsDir(f, cur) THEN NoPath
    ELSE LET c == Head(comps)
             nxt == IF c = Dot THEN cur
                    ELSE IF c = DotDot THEN Parent(cur)
                    ELSE Append(cur, c)
         IN  Walk(f, nxt, Tail(comps))

Resolve(f, w) == Walk(f, IF IsAbs(w) THEN RootPath ELSE Cwd, Comps(w))

Under(f, p) == {q \in DOMAIN f : IsPrefix(p, q)}

Remove(f, p) == [q \in (DOMAIN f \ Under(f, p)) |-> f[q]]

Put(f, p, node) == (p :> node) @@ f

\* mkdir -p along a path string: missing directories are created on the way.
RECURSIVE MkdirWalk(_, _, _)
MkdirWalk(f, cur, comps) ==
    IF comps = <<>> THEN [fs |-> f, at |-> cur]
    ELSE IF IsFile(f, cur) THEN [fs |-> f, at |-> NoPath]
    ELSE LET g == IF Exists(f, cur) THEN f ELSE Put(f, cur, DirNode)
             c == Head(comps)
             nxt == IF c = Dot THEN cur
                    ELSE IF c = DotDot THEN Parent(cur)
                    ELSE Append(cur, c)
         IN  MkdirWalk(g, nxt, Tail(comps))

MkdirP(f, w) ==
    LET r == MkdirWalk(f, IF IsAbs(w) THEN RootPath ELSE Cwd, Comps(w))
    IN  IF r.at = NoPath \/ IsFile(r.fs, r.at) THEN [fs |-> r.fs, at |-> NoPath]
        ELSE [fs |-> IF Exists(r.fs, r.at) THEN r.fs ELSE Put(r.fs, r.at, DirNode),
              at |-> r.at]

----------------------------------------------------------------------------
(* Path strings the script and its tools build.                            *)

SessionRoot == <<"/", "s">>

SessionPath == << <<"s">> >>

FinalizedJson(r) == r \o <<"/", "finalized.json">>

RootDirOf(r, name) == r \o <<"/", "bids", "/">> \o name

TreeLog(r) == r \o <<"/", "tree.log">>

ValidatorLog(r) == r \o <<"/", "validator.log">>

DefaceOut(r) == r \o <<"/", "deface.out">>

DefaceList(r) == r \o <<"/", "deface_list.txt">>

BidsPath == Append(SessionPath, <<"bids">>)

FinalizedPath == Append(SessionPath, <<"finalized.json">>)

RawPath == Append(SessionPath, <<"raw">>)

TreeLogPath == Append(SessionPath, <<"tree.log">>)

ValidatorLogPath == Append(SessionPath, <<"validator.log">>)

OldFile == <<"old_file.txt">>

----------------------------------------------------------------------------
(* Shell semantics.                                                        *)

\* [ -z $1 ] with $1 unquoted: no word leaves the one-argument test of the
\* non-empty string "-z" (true); one word is a non-empty operand (false);
\* more words are a syntax error of test (status 2, so the branch is skipped).
TestN(s) == Len(Words(s)) # 0

TestZ(s) == Len(Words(s)) = 0

\* set -e: a simple command that fails ends the script with its status.
SetEAboveOne(status, next) ==
    [pc |-> IF status > 1 THEN "exit" ELSE next, exit |-> status]

NoSetE(status, next) ==
    [pc |-> next, exit |-> status]

SetE(status, next) ==
    [pc |-> IF status # 0 THEN "exit" ELSE next, exit |-> status]

\* cmd || true
NoOrTrue(status) == status

OrTrue(status) == 0

\* cmd > file : the file is truncated before the command writes to it.
RedirectAppend(old, out) == old \o out

Redirect(old, out) == out

OldData(f, p) == IF IsFile(f, p) THEN f[p].data ELSE <<>>

\* Opening the target of a redirection; the word is not split again here
\* because the model's root has no IFS character.
CanOpen(f, p) == p # NoPath /\ ~IsDir(f, p) /\ IsDir(f, Parent(p))

----------------------------------------------------------------------------
(* External tools.                                                         *)

\* jq -r '.datasetDescription.Name' FILE
JqRun(f, w) ==
    LET p == Resolve(f, w)
    IN  IF ~IsFile(f, p) THEN [status |-> 2, out |-> <<>>]
        ELSE IF f[p].data = <<>> THEN [status |-> 0, out |-> <<>>]
        ELSE LET e == Head(f[p].data)
             IN  CASE e.tag = "garbage" -> [status |-> 2, out |-> <<>>]
                   [] e.tag = "notobject" -> [status |-> 5, out |-> <<>>]
                   [] e.tag = "nofield" -> [status |-> 0, out |-> <<"null">>]
                   [] OTHER -> [status |-> 0, out |-> e.text]

\* rm -rf WORD... : "." and ".." as last component and "/" are refused with
\* status 1, a missing operand is ignored, the other operands still go.
RECURSIVE RmAll(_, _)
RmAll(f, ws) ==
    IF ws = <<>> THEN [fs |-> f, status |-> 0]
    ELSE LET w == Head(ws)
             cs == Comps(w)
             p == Resolve(f, w)
             refused == \/ cs # <<>> /\ Last(cs) \in {Dot, DotDot}
                        \/ p = RootPath
             g == IF refused \/ p = NoPath \/ ~Exists(f, p)
                  THEN f ELSE Remove(f, p)
             r == RmAll(g, Tail(ws))
         IN  [fs |-> r.fs, status |-> IF refused THEN 1 ELSE r.status]

RmRf(f, s) == RmAll(f, Words(s))

\* convert.js ROOT : reads the descriptor and builds <root>/bids/<Name>.
ConvertRun(f, r, oc) ==
    LET j == JqRun(f, FinalizedJson(r))
        m == MkdirP(f, RootDirOf(r, j.out))
        file == Append(m.at, <<"dataset_description.json">>)
    IN  IF j.status # 0 \/ oc = "fail" \/ m.at = NoPath \/ IsDir(m.fs, file)
        THEN [fs |-> f, status |-> 1, wrote |-> {}]
        ELSE [fs |-> Put(m.fs, file, FileNode(<<>>)),
              status |-> IF oc = "ok" THEN 0 ELSE 1,
              wrote |-> (DOMAIN m.fs \ DOMAIN f) \cup {file}]

\* tree DIR... : one entry per operand.
RECURSIVE TreeOut(_, _)
TreeOut(f, ws) ==
    IF ws = <<>> THEN <<>>
    ELSE LET w == Head(ws)
             p == Resolve(f, w)
             e == IF IsDir(f, p)
                  THEN Entry(w, "directory", Under(f, p) \ {p})
                  ELSE Entry(w, "error opening dir", {})
         IN  <<e>> \o TreeOut(f, Tail(ws))

TreeRun(f, s, oc) ==
    IF oc = "ok"
    THEN [status |-> 0, out |-> TreeOut(f, IF Words(s) = <<>> THEN <<Dot>> ELSE Words(s))]
    ELSE [status |-> 1, out |-> <<>>]

\* bids-validator DIR : the report is the validator's business.
ValidatorReports(s) ==
    { <<>>, <<Entry(s, "no issues", {})>>, <<Entry(s, "errors found", {})>> }

----------------------------------------------------------------------------
(* Initial states.                                                         *)

Descriptors ==
    { <<>>,
      <<Entry(<<>>, "garbage", {})>>,
      <<Entry(<<>>, "notobject", {})>>,
      <<Entry(<<>>, "nofield", {})>> }
    \cup { <<Entry(n, "name", {})>> : n \in StringsUpTo(MaxNameLen) }

BaseFs ==
    (RootPath :> DirNode) @@ (Cwd :> DirNode) @@ (SessionPath :> DirNode)
    @@ (RawPath :> FileNode(<<>>))

Missing == <<Entry(<<>>, "missing", {})>>

WithDescriptor(f, d) ==
    IF d = Missing THEN f ELSE Put(f, FinalizedPath, FileNode(d))

\* What an earlier run or an operator may have left under bids/.
WithPrior(f, prior) ==
    LET stray == Put(Put(f, BidsPath, DirNode), Append(BidsPath, OldFile), FileNode(<<>>))
        j == JqRun(stray, FinalizedJson(SessionRoot))
        m == MkdirP(stray, RootDirOf(SessionRoot, j.out))
    IN  CASE prior = "none" -> f
          [] prior = "stray" -> stray
          [] OTHER -> IF j.status # 0 \/ m.at = NoPath THEN stray
                      ELSE Put(m.fs, Append(m.at, OldFile), FileNode(<<>>))

NoOutcome == [conv |-> "none", tree |-> "none", val |-> "none"]

NoFan == [started |-> 0, running |-> 0, failed |-> 0]

InitCommon ==
    /\ pc = "start"
    /\ exitStatus = 0
    /\ root = <<>>
    /\ datasetName = <<>>
    /\ rootDir = <<>>
    /\ trace = <<>>
    /\ run = 1
    /\ fs0 = fs
    /\ convWrote = {}
    /\ outcome = NoOutcome
    /\ valOut = <<>>
    /\ hist = <<>>
    /\ fan = NoFan

Init ==
    /\ variant = "A"
    /\ manifest = 0
    /\ arg \in {<<>>, SessionRoot}
    /\ \E d \in Descriptors \cup {Missing}, prior \in {"none", "stray", "stale"} :
          fs = WithPrior(WithDescriptor(BaseFs, d), prior)
    /\ InitCommon

----------------------------------------------------------------------------
(* The script, one action per command.                                     *)

Go(r) == /\ pc' = r.pc
         /\ exitStatus' = r.exit

Log(cmd) == trace' = Append(trace, cmd)

\* Lines 6-10: if [ -z $1 ]; then echo ...; exit 1; fi; root=$1
ArgCheck ==
    /\ pc = "start"
    /\ Log("test")
    /\ IF TestZ(arg)
       THEN /\ Go([pc |-> "exit", exit |-> 1])
            /\ UNCHANGED root
       ELSE /\ Go([pc |-> "jq", exit |-> 0])
            /\ root' = arg
    /\ UNCHANGED <<arg, datasetName, rootDir, fs, run, fs0, convWrote,
                   outcome, valOut, hist, variant, manifest, fan>>

\* Line 12: datasetName=`jq -r '.datasetDescription.Name' $root/finalized.json`
ReadName ==
    /\ pc = "jq"
    /\ Log("jq")
    /\ LET j == JqRun(fs, Head(Words(FinalizedJson(root))))
       IN  /\ datasetName' = j.out
           /\ Go(SetE(j.status, "assign"))
    /\ UNCHANGED <<arg, root, rootDir, fs, run, fs0, convWrote,
                   outcome, valOut, hist, variant, manifest, fan>>

\* Line 14: rootDir=$root/bids/$datasetName
AssignRootDir ==
    /\ pc = "assign"
    /\ rootDir' = RootDirOf(root, datasetName)
    /\ Go([pc |-> "rm", exit |-> 0])
    /\ UNCHANGED <<arg, root, datasetName, fs, trace, run, fs0, convWrote,
                   outcome, valOut, hist, variant, manifest, fan>>

AfterRmSkipsConvert == IF variant = "B" THEN "mklist" ELSE "tree"

AfterRm == IF variant = "B" THEN "mklist" ELSE "convert"

\* Line 16: rm -rf $rootDir
RemoveTarget ==
    /\ pc = "rm"
    /\ Log("rm")
    /\ LET r == RmRf(fs, rootDir)
       IN  /\ fs' = r.fs
           /\ Go(SetE(r.status, AfterRm))
    /\ UNCHANGED <<arg, root, datasetName, rootDir, run, fs0, convWrote,
                   outcome, valOut, hist, variant, manifest, fan>>

\* Lines 35-36: ./convert.js $root
Convert ==
    /\ pc = "convert"
    /\ Log("convert.js")
    /\ \E oc \in {"ok", "fail", "partial"} :
          LET c == ConvertRun(fs, Head(Words(root)), oc)
          IN  /\ fs' = c.fs
              /\ convWrote' = c.wrote
              /\ outcome' = [outcome EXCEPT !.conv =
                                 IF c.status = 0 THEN "ok"
                                 ELSE IF c.wrote = {} THEN "fail" ELSE "partial"]
              /\ Go(SetE(c.status, "tree"))
    /\ UNCHANGED <<arg, root, datasetName, rootDir, run, fs0,
                   valOut, hist, variant, manifest, fan>>

\* Lines 39-40: tree $rootDir > $root/tree.log
Tree ==
    /\ pc = "tree"
    /\ LET p == Resolve(fs, Head(Words(TreeLog(root))))
       IN  IF ~CanOpen(fs, p)
           THEN /\ Go(SetE(1, "validator"))
                /\ UNCHANGED <<fs, trace, outcome>>
           ELSE \E oc \in {"ok", "fail"} :
                  LET opened == Put(fs, p, FileNode(Redirect(OldData(fs, p), <<>>)))
                      t == TreeRun(opened, rootDir, oc)
                  IN  /\ Log("tree")
                      /\ fs' = Put(fs, p, FileNode(Redirect(OldData(fs, p), t.out)))
                      /\ outcome' = [outcome EXCEPT !.tree = oc]
                      /\ Go(SetE(t.status, "validator"))
    /\ UNCHANGED <<arg, root, datasetName, rootDir, run, fs0, convWrote,
                   valOut, hist, variant, manifest, fan>>

\* Lines 42-43: bids-validator $rootDir > $root/validator.log || true
Validator ==
    /\ pc = "validator"
    /\ LET p == Resolve(fs, Head(Words(ValidatorLog(root))))
       IN  IF ~CanOpen(fs, p)
           THEN /\ Go([pc |-> "exit", exit |-> OrTrue(1)])
                /\ UNCHANGED <<fs, trace, outcome, valOut>>
           ELSE \E oc \in {"ok", "fail"}, rep \in ValidatorReports(rootDir) :
                  /\ Log("bids-validator")
                  /\ valOut' = rep
                  /\ fs' = Put(fs, p, FileNode(Redirect(OldData(fs, p), rep)))
                  /\ outcome' = [outcome EXCEPT !.val = oc]
                  /\ Go([pc |-> "exit",
                         exit |-> OrTrue(IF oc = "ok" THEN 0 ELSE 1)])
    /\ UNCHANGED <<arg, root, datasetName, rootDir, run, fs0, convWrote,
                   hist, variant, manifest, fan>>

\* The content of a file as an observer reads it.
Content(f, p) == IF IsFile(f, p) THEN f[p].data ELSE Missing

RunRecord ==
    [exit |-> exitStatus, trace |-> trace, outcome |-> outcome,
     named |-> JqRun(fs0, FinalizedJson(SessionRoot)),
     treeLog |-> Content(fs, TreeLogPath), fan |-> fan]

\* The shell process ends; what the operator can observe of the run is kept.
Exit ==
    /\ pc = "exit"
    /\ pc' = "done"
    /\ hist' = Append(hist, RunRecord)
    /\ UNCHANGED <<arg, exitStatus, root, datasetName, rootDir, fs, trace, run,
                   fs0, convWrote, outcome, valOut, variant, manifest, fan>>

\* The operator runs bids.sh again on the same session root.
Rerun ==
    /\ pc = "done"
    /\ run < MaxRuns
    /\ run' = run + 1
    /\ pc' = "start"
    /\ exitStatus' = 0
    /\ root' = <<>>
    /\ datasetName' = <<>>
    /\ rootDir' = <<>>
    /\ trace' = <<>>
    /\ fs0' = fs
    /\ convWrote' = {}
    /\ outcome' = NoOutcome
    /\ valOut' = <<>>
    /\ fan' = NoFan
    /\ UNCHANGED <<arg, fs, hist, variant, manifest>>

Next ==
    \/ ArgCheck
    \/ ReadName
    \/ AssignRootDir
    \/ RemoveTarget
    \/ Convert
    \/ Tree
    \/ Validator
    \/ Exit
    \/ Rerun

Spec == Init /\ [][Next]_vars

----------------------------------------------------------------------------
(* The defacing stage of lines 18-33 (commented out in the script as       *)
(* shipped), between rm -rf and the converter of the manifest-driven       *)
(* variant.                                                                *)

\* parallel -j 12
Jobs == 12

Records(f, r) ==
    LET p == Resolve(f, Head(Words(DefaceList(r))))
    IN  IF IsFile(f, p) THEN Len(f[p].data) ELSE 0

\* Lines 18-19: ./make_deface_list.py $root
MakeDefaceList ==
    /\ pc = "mklist"
    /\ Log("make_deface_list.py")
    /\ LET p == Resolve(fs, Head(Words(DefaceList(root))))
       IN  \E oc \in {"ok", "fail"} :
              IF oc = "ok" /\ CanOpen(fs, p)
              THEN /\ fs' = Put(fs, p, FileNode([i \in 1..manifest |->
                                           Entry(<<"record">>, "record", {})]))
                   /\ Go(SetE(0, "touch"))
              ELSE /\ fs' = fs
                   /\ Go(SetE(1, "touch"))
    /\ UNCHANGED <<arg, root, datasetName, rootDir, run, fs0, convWrote,
                   outcome, valOut, hist, variant, manifest, fan>>

\* Lines 21-24: if [ ! -f $root/deface.out ]; then touch $root/deface.out; fi
TouchSentinel ==
    /\ pc = "touch"
    /\ LET p == Resolve(fs, Head(Words(DefaceOut(root))))
       IN  IF IsFile(fs, p)
           THEN /\ Go([pc |-> "chmod", exit |-> 0])
                /\ UNCHANGED <<fs, trace>>
           ELSE /\ Log("touch")
                /\ IF CanOpen(fs, p)
                   THEN /\ fs' = Put(fs, p, FileNode(<<>>))
                        /\ Go(SetE(0, "chmod"))
                   ELSE /\ fs' = fs
                        /\ Go(SetE(1, "chmod"))
    /\ UNCHANGED <<arg, root, datasetName, rootDir, run, fs0, convWrote,
                   outcome, valOut, hist, variant, manifest, fan>>

\* Line 26: chmod -R 777 $root (the model keeps no permission bits)
Chmod ==
    /\ pc = "chmod"
    /\ Log("chmod")
    /\ Go(SetE(IF Exists(fs, Resolve(fs, Head(Words(root)))) THEN 0 ELSE 1,
               "parallel"))
    /\ UNCHANGED <<arg, root, datasetName, rootDir, fs, run, fs0, convWrote,
                   outcome, valOut, hist, variant, manifest, fan>>

\* Line 33: parallel starts deface for the next record while fewer than
\* Jobs invocations are running.
DefaceStart ==
    /\ pc = "parallel"
    /\ fan.started < Records(fs, root)
    /\ fan.running < Jobs
    /\ fan' = [fan EXCEPT !.started = @ + 1, !.running = @ + 1]
    /\ UNCHANGED <<arg, pc, exitStatus, root, datasetName, rootDir, fs, trace,
                   run, fs0, convWrote, outcome, valOut, hist, variant, manifest>>

\* Lines 28-31: one ./deface.py invocation exits, with or without success.
DefaceExit ==
    /\ pc = "parallel"
    /\ fan.running > 0
    /\ \E ok \in BOOLEAN :
          fan' = [fan EXCEPT !.running = @ - 1,
                             !.failed = IF ok THEN @ ELSE @ + 1]
    /\ UNCHANGED <<arg, pc, exitStatus, root, datasetName, rootDir, fs, trace,
                   run, fs0, convWrote, outcome, valOut, hist, variant, manifest>>

\* parallel exits when every record has been run; its status is the number
\* of failed jobs (101 for more than 100).
ParallelStatus(failed) == IF failed > 100 THEN 101 ELSE failed

\* Line 33: cat $root/deface_list.txt | parallel -j 12 deface {}
ParallelExit ==
    /\ pc = "parallel"
    /\ fan.started = Records(fs, root)
    /\ fan.running = 0
    /\ Log("parallel")
    /\ Go(SetE(ParallelStatus(fan.failed), "convert"))
    /\ UNCHANGED <<arg, root, datasetName, rootDir, fs, run, fs0, convWrote,
                   outcome, valOut, hist, variant, manifest, fan>>

InitB ==
    /\ variant = "B"
    /\ manifest \in 0..MaxManifest
    /\ arg = SessionRoot
    /\ \E prior \in {"none", "stale"} :
          fs = WithPrior(WithDescriptor(BaseFs, <<Entry(<<"ds">>, "name", {})>>), prior)
    /\ InitCommon

NextB ==
    \/ Next
    \/ MakeDefaceList
    \/ TouchSentinel
    \/ Chmod
    \/ DefaceStart
    \/ DefaceExit
    \/ ParallelExit

SpecB == InitB /\ [][NextB]_vars

TypeOK ==
    /\ pc \in {"start", "jq", "assign", "rm", "mklist", "touch", "chmod",
               "parallel", "convert", "tree", "validator", "exit", "done"}
    /\ exitStatus \in 0..255
    /\ run \in 1..MaxRuns
    /\ IsDir(fs, RootPath)
    /\ \A p \in DOMAIN fs : p = RootPath \/ IsDir(fs, Parent(p))

----------------------------------------------------------------------------
(* Properties.                                                             *)

InTrace(cmd) == \E i \in 1..Len(trace) : trace[i] = cmd

Ended == pc \in {"exit", "done"}

ConverterFailed == outcome.conv \in {"fail", "partial"}

\* The target directory as the path string <root>/bids/<datasetName> names it.
Target == Resolve(fs0, rootDir)

\* C1: run without a root-directory argument: the run ends with the usage
\* error status 1, the filesystem is never changed and no external tool runs.
C1_MissingArgument ==
    arg = <<>> =>
        /\ fs = fs0
        /\ pc \in {"start", "exit", "done"}
        /\ pc # "start" => (exitStatus = 1 /\ trace = <<"test">>)

C1_Witness ==
    /\ arg = <<>>
    /\ pc = "done"
    /\ IsFile(fs, Append(BidsPath, OldFile))

\* C2: a validator that exits non-zero leaves the run with exit status 0 and
\* validator.log holding the validator's captured output.
C2_ValidatorNonFatal ==
    (Ended /\ outcome.val = "fail") =>
        /\ exitStatus = 0
        /\ IsFile(fs, ValidatorLogPath)
        /\ fs[ValidatorLogPath].data = valOut

C2_Witness ==
    /\ pc = "done"
    /\ outcome.val = "fail"
    /\ outcome.conv = "ok"
    /\ outcome.tree = "ok"
    /\ valOut # <<>>

\* C3: a converter that exits non-zero makes the run end with a non-zero
\* exit status.
C3_ConverterFatal ==
    (Ended /\ ConverterFailed) => exitStatus # 0

C3_Witness ==
    /\ pc = "done"
    /\ outcome.conv = "partial"

\* C4 as claimed: after a failed converter, with the target directory
\* accessible, the tree step still runs and tree.log is produced.
C4_TreeAfterFailedConverter ==
    (pc = "done" /\ ConverterFailed /\ IsDir(fs, Resolve(fs, rootDir))) =>
        /\ InTrace("tree")
        /\ IsFile(fs, TreeLogPath)

\* C4 as amended: after a failed converter neither the tree step nor the
\* validator is executed; the converter is the last command of the run.
C4_NoTreeAfterFailedConverter ==
    ConverterFailed =>
        /\ Ended
        /\ ~InTrace("tree")
        /\ ~InTrace("bids-validator")
        /\ Last(trace) = "convert.js"

C4_Witness ==
    /\ pc = "done"
    /\ outcome.conv = "partial"
    /\ IsDir(fs, Resolve(fs, rootDir))
    /\ ~Exists(fs, TreeLogPath)

\* C5 as claimed: once the converter has been invoked, no file that was
\* under the target directory before the run is still there, unless this
\* run's converter wrote it.
C5_NoStaleFiles ==
    InTrace("convert.js") =>
        \A p \in DOMAIN fs0 :
            (Target # NoPath /\ IsPrefix(Target, p) /\ IsFile(fs0, p)) =>
                (~Exists(fs, p) \/ p \in convWrote)

BadDescriptor(f) ==
    \/ ~IsFile(f, FinalizedPath)
    \/ /\ f[FinalizedPath].data # <<>>
       /\ Head(f[FinalizedPath].data).tag \in {"garbage", "notobject", "nofield"}

\* C6 as claimed: with finalized.json missing, unparseable or without the
\* field, the run ends non-zero and neither rm -rf nor the converter runs.
C6_MetadataFatal ==
    (arg # <<>> /\ BadDescriptor(fs0)) =>
        /\ ~InTrace("rm")
        /\ ~InTrace("convert.js")
        /\ Ended => exitStatus # 0

SameOrNotAsked(a, b) == a = b \/ a = "none" \/ b = "none"

\* C8: two runs in succession on a well-formed descriptor, with a converter
\* and a tree lister that behave the same in both, leave the same tree.log.
C8_SameTreeLog ==
    \A i \in 1..(Len(hist) - 1) :
        ( /\ hist[i].named.status = 0
          /\ SameOrNotAsked(hist[i].outcome.conv, hist[i + 1].outcome.conv)
          /\ SameOrNotAsked(hist[i].outcome.tree, hist[i + 1].outcome.tree) )
        => hist[i].treeLog = hist[i + 1].treeLog

C8_Witness ==
    /\ Len(hist) >= 2
    /\ IsFile(fs, Append(BidsPath, OldFile))
    /\ hist[1].outcome.tree = "ok"
    /\ hist[2].outcome.tree = "ok"
    /\ hist[2].treeLog # Missing
    /\ \E i \in 1..Len(hist[2].treeLog) : hist[2].treeLog[i].sub # {}
    /\ hist[1].treeLog = hist[2].treeLog

Order == <<"test", "jq", "rm", "convert.js", "tree", "bids-validator">>

\* C9: the commands of a run execute in the declared order, each after the
\* one before it has exited: the converter after rm, tree after a converter
\* that succeeded, the validator after tree.
C9_StrictOrder ==
    /\ IsPrefix(trace, Order)
    /\ InTrace("tree") => outcome.conv = "ok"
    /\ InTrace("bids-validator") => (outcome.tree = "ok" /\ IsFile(fs, TreeLogPath))

C9_Witness ==
    /\ pc = "done"
    /\ trace = Order

C10_RootNeverDeleted ==
    (trace # <<>> /\ Last(trace) = "rm") =>
        /\ IsDir(fs, SessionPath)
        /\ Content(fs, FinalizedPath) = Content(fs0, FinalizedPath)
        /\ Content(fs, RawPath) = Content(fs0, RawPath)

====
